---- MODULE Spec2Model ----
(***************************************************************************)
(* A model of make_cells_bin.py: one run of main() from the decoded RGBA   *)
(* image to the bytes of the output file.                                  *)
(*                                                                         *)
(* The run is modelled with --preview absent (its default): the preview    *)
(* image is drawn from the entries and never read back, and it is saved    *)
(* after the output file has been closed.                                  *)
(*                                                                         *)
(* Numbers.  TLC's integers are 32 bits wide, so                           *)
(*   - a Python double that the code compares (luma) is an exact natural   *)
(*     number of units of 2^-56, held in three limbs of 22 bits, and every *)
(*     floating-point operation rounds it to 53 significant bits, ties to  *)
(*     even, as IEEE-754 binary64 does;                                    *)
(*   - the doubles u = (ix+0.5)/wC and v = (jy+0.5)/hC are held as the     *)
(*     exact fraction <<2*ix+1, 2*wC>>; struct's 'f' conversion rounds     *)
(*     that fraction to binary32.  (The code rounds twice, to binary64     *)
(*     and then to binary32; for denominators below 2^7 the fraction is    *)
(*     never within 2^-53 of a binary32 tie, so the two agree.)            *)
(***************************************************************************)
EXTENDS Integers, Sequences, FiniteSets, TLC

(***************************************************************************)
(* Bounds of the model.                                                    *)
(***************************************************************************)
\* the decoded image holds at most MaxPixels pixels (W * H <= MaxPixels)
MaxPixels == 6
\* the positive block sizes tried are 1..MaxBlock (and one beyond 16 bits)
MaxBlock == 2

(***************************************************************************)
(* Constants of the program.                                               *)
(***************************************************************************)
MAGIC == 1128614961

\* struct format strings, as the sequence of their fields' codes
HEADER_FMT == <<"I", "I", "H", "H", "H", "H">>
ENTRY_FMT == <<"f", "f", "B", "B", "B", "B">>

\* struct: the size in bytes of a field code ('<': standard sizes, no padding)
FieldSize(code) ==
    CASE code = "I" -> 4
      [] code = "H" -> 2
      [] code = "B" -> 1
      [] code = "f" -> 4

RECURSIVE calcsize(_)
calcsize(fmt) ==
    IF fmt = <<>> THEN 0 ELSE FieldSize(Head(fmt)) + calcsize(Tail(fmt))

(***************************************************************************)
(* Integer helpers.                                                        *)
(***************************************************************************)
RECURSIVE Pow2(_)
Pow2(n) == IF n = 0 THEN 1 ELSE 2 * Pow2(n - 1)

\* Python's //: the floor of a / b, for b # 0
FloorDiv(a, b) == IF b > 0 THEN a \div b ELSE (0 - a) \div (0 - b)

\* v shifted right by n bytes
RECURSIVE ShiftBytes(_, _)
ShiftBytes(v, n) == IF n = 0 THEN v ELSE ShiftBytes(v \div 256, n - 1)

\* struct: an unsigned field of n bytes takes 0 <= v < 256^n
FitsUnsigned(v, n) == v >= 0 /\ ShiftBytes(v, n) = 0

\* the n bytes of v, least significant first ('<')
PackLE(v, n) == [i \in 1..n |-> ShiftBytes(v, i - 1) % 256]

\* the value of little-endian bytes
RECURSIVE UnpackLE(_)
UnpackLE(bs) == IF bs = <<>> THEN 0 ELSE Head(bs) + 256 * UnpackLE(Tail(bs))

(***************************************************************************)
(* binary32: the bits of the fraction f = <<p, q>> with 0 < p/q < 1,       *)
(* rounded to 24 significant bits, ties to even.                           *)
(***************************************************************************)
\* the least e >= 1 with p * 2^e >= q, so that 2^-e <= p/q < 2^(1-e)
RECURSIVE FracExp(_, _, _)
FracExp(p, q, e) == IF p * Pow2(e) >= q THEN e ELSE FracExp(p, q, e + 1)

\* n / d rounded to the nearest integer, ties to even
RoundDiv(n, d) ==
    LET fl == n \div d
        r2 == 2 * (n % d)
    IN IF r2 > d \/ (r2 = d /\ fl % 2 = 1) THEN fl + 1 ELSE fl

Float32Bits(f) ==
    LET e == FracExp(f[1], f[2], 1)
        m == RoundDiv(f[1] * Pow2(e) * Pow2(23), f[2])
    IN IF m = Pow2(24)
       THEN (127 - e + 1) * Pow2(23)
       ELSE (127 - e) * Pow2(23) + (m - Pow2(23))

(***************************************************************************)
(* binary64 arithmetic on naturals counted in units of 2^-56, as three     *)
(* limbs <<l0, l1, l2>> of 22 bits, least significant first (l2 is open).  *)
(***************************************************************************)
LimbBase == Pow2(22)

RECURSIVE BitLen(_)
BitLen(n) == IF n = 0 THEN 0 ELSE 1 + BitLen(n \div 2)

LimbAdd(t, u) ==
    LET s0 == t[1] + u[1]
        s1 == t[2] + u[2] + s0 \div LimbBase
    IN <<s0 % LimbBase, s1 % LimbBase, t[3] + u[3] + s1 \div LimbBase>>

\* t * k for an integer 0 <= k <= 255
LimbMulSmall(t, k) ==
    LET p0 == t[1] * k
        p1 == t[2] * k + p0 \div LimbBase
    IN <<p0 % LimbBase, p1 % LimbBase, t[3] * k + p1 \div LimbBase>>

LimbLess(t, u) ==
    \/ t[3] < u[3]
    \/ t[3] = u[3] /\ t[2] < u[2]
    \/ t[3] = u[3] /\ t[2] = u[2] /\ t[1] < u[1]

\* round to 53 significant bits, ties to even: bits 0..43 are l0 and l1, so
\* the number has more than 53 bits when l2 has more than 9, and the k bits
\* it loses (k <= 11 for values below 2^64) all lie in l0
Round53(t) ==
    IF BitLen(t[3]) <= 9 THEN t
    ELSE LET k == BitLen(t[3]) - 9
             q == Pow2(k)
             rem == t[1] % q
             kept == <<t[1] - rem, t[2], t[3]>>
             up == 2 * rem > q \/ (2 * rem = q /\ (t[1] \div q) % 2 = 1)
         IN IF up THEN LimbAdd(kept, <<q, 0, 0>>) ELSE kept

\* the doubles nearest 0.2126, 0.7152 and 0.0722, in units of 2^-56
LumaR == <<2174328, 3395708, 870>>
LumaG == <<1664296, 1926024, 2929>>
LumaB == <<355677, 3066875, 295>>

FMul(c, k) == Round53(LimbMulSmall(c, k))
FAdd(t, u) == Round53(LimbAdd(t, u))

\* luma(r,g,b): 0.2126*r + 0.7152*g + 0.0722*b, evaluated left to right
luma(r, g, b) == FAdd(FAdd(FMul(LumaR, r), FMul(LumaG, g)), FMul(LumaB, b))

\* the double x compared with the int n: x < n
FloatLessInt(x, n) ==
    IF n <= 0 THEN FALSE
    ELSE IF n > 1000 THEN TRUE
    ELSE LimbLess(x, <<0, 0, n * 4096>>)

(***************************************************************************)
(* struct.pack                                                             *)
(***************************************************************************)
FieldFits(code, v) == code = "f" \/ FitsUnsigned(v, FieldSize(code))

\* struct.pack raises struct.error unless every integer fits its field
PackOk(fmt, vals) == \A i \in 1..Len(fmt) : FieldFits(fmt[i], vals[i])

PackField(code, v) ==
    IF code = "f" THEN PackLE(Float32Bits(v), 4) ELSE PackLE(v, FieldSize(code))

RECURSIVE pack(_, _)
pack(fmt, vals) ==
    IF fmt = <<>> THEN <<>>
    ELSE PackField(Head(fmt), Head(vals)) \o pack(Tail(fmt), Tail(vals))

(***************************************************************************)
(* The inputs of a run.                                                    *)
(***************************************************************************)
\* RGBA pixels the decoded image is made of: opaque white, transparent
\* black, and a dark grey at both default thresholds (luma 10, alpha 8)
Palette == {<<255, 255, 255, 255>>, <<0, 0, 0, 0>>, <<10, 10, 10, 8>>}

\* --block: negative, zero, small, and one that no 16-bit field holds
Blocks == {-1, 0, 65536} \cup (1..MaxBlock)
\* --alpha: the default, and one on each side of 0..255
Alphas == {-1, 8, 300}
\* --black: the default
Blacks == {10}

Args == [block : Blocks, black : Blacks, alpha : Alphas]

Sizes == {s \in (1..MaxPixels) \X (1..MaxPixels) : s[1] * s[2] <= MaxPixels}

Coords(w, h) == (0..(w - 1)) \X (0..(h - 1))

\* Image.open(...).convert("RGBA"): a size and a pixel for every coordinate
Images ==
    UNION {[size : {s}, data : [Coords(s[1], s[2]) -> Palette]] : s \in Sizes}

\* what the output path may hold before the run: nothing, or an older file
OldData == <<1, 2, 3>>
Paths == {[exists |-> FALSE, data |-> <<>>], [exists |-> TRUE, data |-> OldData]}

(***************************************************************************)
(* The steps of main().                                                    *)
(***************************************************************************)
\* wC,hC = w//a.block, h//a.block
GridCellsCeil(w, h, block) ==
    <<FloorDiv(w + block - 1, block), FloorDiv(h + block - 1, block)>>

GridCells(w, h, block) == <<FloorDiv(w, block), FloorDiv(h, block)>>

\* Image.crop((0,0,cw,ch)): the pixels inside the image, transparent black
\* where the box reaches beyond it
Crop(im, cw, ch) ==
    [size |-> <<cw, ch>>,
     data |-> [c \in Coords(cw, ch) |->
                 IF c[1] < im.size[1] /\ c[2] < im.size[2]
                 THEN im.data[c] ELSE <<0, 0, 0, 0>>]]

RECURSIVE SumOver(_, _, _)
SumOver(S, data, ch) ==
    IF S = {} THEN 0
    ELSE LET c == CHOOSE c \in S : TRUE
         IN data[c][ch] + SumOver(S \ {c}, data, ch)

\* the pixels of cell (ix, jy): range(ix*bs, ix*bs+bs) x range(jy*bs, jy*bs+bs)
CellPixels(block, cx, cy) ==
    ((cx * block)..(cx * block + block - 1)) \X ((cy * block)..(cy * block + block - 1))

\* r,g,b,alp: each channel summed over the cell; R=r//n ... with n = bs*bs
CellAverageRounded(pix, block, cx, cy) ==
    [ch \in 1..4 |->
       (SumOver(CellPixels(block, cx, cy), pix.data, ch) + (block * block) \div 2)
           \div (block * block)]

CellAverage(pix, block, cx, cy) ==
    [ch \in 1..4 |->
       SumOver(CellPixels(block, cx, cy), pix.data, ch) \div (block * block)]

\* not (A < a.alpha or luma(R,G,B) < a.black)
KeepAll(avg, args) == TRUE

Keep(avg, args) ==
    ~(avg[4] < args.alpha \/ FloatLessInt(luma(avg[1], avg[2], avg[3]), args.black))

\* (u,v,R,G,B,A) with u=(ix+0.5)/wC, v=(jy+0.5)/hC
Entry(avg, cx, cy, cols, rows) ==
    <<<<2 * cx + 1, 2 * cols>>, <<2 * cy + 1, 2 * rows>>,
      avg[1], avg[2], avg[3], avg[4]>>

\* one pass of the inner loop body: the entries with the cell's appended
ScanCell(ents, pix, args, cx, cy, cols, rows) ==
    LET avg == CellAverage(pix, args.block, cx, cy)
    IN IF Keep(avg, args) THEN Append(ents, Entry(avg, cx, cy, cols, rows))
       ELSE ents

\* for jy in range(hC): for ix in range(wC): the cell after (cy, cx)
NextCellColumnMajor(cy, cx, cols, rows) ==
    IF cy + 1 < rows THEN <<cy + 1, cx>> ELSE <<0, cx + 1>>

NextCell(cy, cx, cols, rows) ==
    IF cx + 1 < cols THEN <<cy, cx + 1>> ELSE <<cy + 1, 0>>

\* the loops have a cell to visit
InGrid(cy, cx, cols, rows) == cy < rows /\ cx < cols

\* the values packed into the header: MAGIC, len(entries), wC, hC, bs, 0
HeaderValuesAllCells(ents, cols, rows, block) ==
    <<MAGIC, cols * rows, cols, rows, block, 0>>

HeaderValuesSwapped(ents, cols, rows, block) ==
    <<MAGIC, Len(ents), rows, cols, block, 0>>

HeaderValues(ents, cols, rows, block) ==
    <<MAGIC, Len(ents), cols, rows, block, 0>>

VARIABLES
    a,        \* the parsed arguments
    image,    \* the decoded input image
    img,      \* the cropped image the loops read
    wC, hC,   \* the grid
    jy, ix,   \* the loops' position
    entries,  \* the entries collected so far
    outbin,   \* the output path: whether it exists, and its bytes
    outbin0,  \* the output path as the run found it
    written,  \* how many entries the write loop has written
    pc,       \* where main() is
    err,      \* the exception that ended the run, or "none"
    other,    \* a second decoded image, for comparing two runs
    outputs   \* the results of the two runs compared

vars == <<a, image, img, wC, hC, jy, ix, entries, outbin, outbin0, written,
          pc, err, other, outputs>>

Init ==
    /\ a \in Args
    /\ image \in Images
    /\ img = image
    /\ wC = 0 /\ hC = 0
    /\ jy = 0 /\ ix = 0
    /\ entries = <<>>
    /\ outbin0 \in Paths
    /\ outbin = outbin0
    /\ written = 0
    /\ pc = "grid"
    /\ err = "none"
    /\ other = image
    /\ outputs = <<>>

Fail(e) == pc' = "failed" /\ err' = e

\* lines 23-32: the grid, the crop, the empty entry list
Grid ==
    /\ pc = "grid"
    /\ IF a.block = 0
       THEN /\ Fail("ZeroDivisionError")
            /\ UNCHANGED <<img, wC, hC>>
       ELSE LET g == GridCells(image.size[1], image.size[2], a.block)
            IN /\ wC' = g[1]
               /\ hC' = g[2]
               /\ img' = Crop(image, g[1] * a.block, g[2] * a.block)
               /\ pc' = "scan"
               /\ err' = err
    /\ UNCHANGED <<a, image, jy, ix, entries, outbin, outbin0, written, other, outputs>>

\* lines 33-45: one cell of the scan
Cell ==
    /\ pc = "scan"
    /\ InGrid(jy, ix, wC, hC)
    /\ entries' = ScanCell(entries, img, a, ix, jy, wC, hC)
    /\ jy' = NextCell(jy, ix, wC, hC)[1]
    /\ ix' = NextCell(jy, ix, wC, hC)[2]
    /\ UNCHANGED <<a, image, img, wC, hC, outbin, outbin0, written, pc, err, other, outputs>>

\* the loops end
ScanEnd ==
    /\ pc = "scan"
    /\ ~InGrid(jy, ix, wC, hC)
    /\ pc' = "open"
    /\ UNCHANGED <<a, image, img, wC, hC, jy, ix, entries, outbin, outbin0, written,
                   err, other, outputs>>

\* lines 47-48: os.makedirs and open(a.outbin,"wb"), which creates the file
\* or truncates it; either call may raise OSError
Open ==
    /\ pc = "open"
    /\ \/ /\ outbin' = [exists |-> TRUE, data |-> <<>>]
          /\ pc' = "header"
          /\ err' = err
       \/ /\ Fail("OSError")
          /\ outbin' = outbin
    /\ UNCHANGED <<a, image, img, wC, hC, jy, ix, entries, outbin0, written, other, outputs>>

\* line 49: the header is packed and written; leaving the with block on an
\* exception closes the file with what has been written
WriteHeader ==
    /\ pc = "header"
    /\ LET vals == HeaderValues(entries, wC, hC, a.block)
       IN IF ~PackOk(HEADER_FMT, vals)
          THEN Fail("struct.error") /\ outbin' = outbin
          ELSE \/ /\ outbin' = [outbin EXCEPT !.data = @ \o pack(HEADER_FMT, vals)]
                  /\ pc' = "entries"
                  /\ err' = err
               \/ /\ Fail("OSError")
                  /\ outbin' = outbin
    /\ UNCHANGED <<a, image, img, wC, hC, jy, ix, entries, outbin0, written, other, outputs>>

\* lines 50-51: one entry is packed and written
WriteEntry ==
    /\ pc = "entries"
    /\ written < Len(entries)
    /\ LET vals == entries[written + 1]
       IN IF ~PackOk(ENTRY_FMT, vals)
          THEN Fail("struct.error") /\ UNCHANGED <<outbin, written>>
          ELSE \/ /\ outbin' = [outbin EXCEPT !.data = @ \o pack(ENTRY_FMT, vals)]
                  /\ written' = written + 1
                  /\ UNCHANGED <<pc, err>>
               \/ /\ Fail("OSError")
                  /\ UNCHANGED <<outbin, written>>
    /\ UNCHANGED <<a, image, img, wC, hC, jy, ix, entries, outbin0, other, outputs>>

\* lines 51-56: every entry is written and the file is closed; the run then
\* reads the file back for its report, which may raise OSError
Close ==
    /\ pc = "entries"
    /\ written = Len(entries)
    /\ \/ pc' = "done" /\ err' = err
       \/ Fail("OSError")
    /\ UNCHANGED <<a, image, img, wC, hC, jy, ix, entries, outbin, outbin0, written,
                   other, outputs>>

Next == Grid \/ Cell \/ ScanEnd \/ Open \/ WriteHeader \/ WriteEntry \/ Close

Spec == Init /\ [][Next]_vars

(***************************************************************************)
(* A whole run as a function of its inputs, for comparing two runs: the    *)
(* same steps, taken with no I/O failure.                                  *)
(***************************************************************************)
RECURSIVE Scan(_, _, _, _, _, _, _)
Scan(ents, pix, args, cy, cx, cols, rows) ==
    IF ~InGrid(cy, cx, cols, rows) THEN ents
    ELSE LET n == NextCell(cy, cx, cols, rows)
         IN Scan(ScanCell(ents, pix, args, cx, cy, cols, rows),
                 pix, args, n[1], n[2], cols, rows)

RECURSIVE WriteAll(_, _)
WriteAll(data, ents) ==
    IF ents = <<>> THEN [err |-> "none", data |-> data]
    ELSE IF ~PackOk(ENTRY_FMT, Head(ents)) THEN [err |-> "struct.error", data |-> data]
    ELSE WriteAll(data \o pack(ENTRY_FMT, Head(ents)), Tail(ents))

\* main() for a.block # 0: the exception raised, and the bytes of the file
RunOutput(im, args) ==
    LET g == GridCells(im.size[1], im.size[2], args.block)
        pix == Crop(im, g[1] * args.block, g[2] * args.block)
        ents == Scan(<<>>, pix, args, 0, 0, g[1], g[2])
        vals == HeaderValues(ents, g[1], g[2], args.block)
    IN IF ~PackOk(HEADER_FMT, vals) THEN [err |-> "struct.error", data |-> <<>>]
       ELSE WriteAll(pack(HEADER_FMT, vals), ents)

\* the pixels no cell of the grid covers
Remainder(im, block) ==
    {c \in Coords(im.size[1], im.size[2]) :
        \/ c[1] >= (im.size[1] \div block) * block
        \/ c[2] >= (im.size[2] \div block) * block}

\* the images that differ from im in at most one remainder pixel; any two
\* images that agree on the covered pixels are joined by a chain of such steps
Perturbed(im, block) ==
    {im} \cup {[im EXCEPT !.data[c] = p] : c \in Remainder(im, block), p \in Palette}

PairInit ==
    /\ a \in {x \in Args : x.block >= 1}
    /\ image \in Images
    /\ other \in Perturbed(image, a.block)
    /\ img = image
    /\ wC = 0 /\ hC = 0
    /\ jy = 0 /\ ix = 0
    /\ entries = <<>>
    /\ outbin0 = [exists |-> FALSE, data |-> <<>>]
    /\ outbin = outbin0
    /\ written = 0
    /\ pc = "pair"
    /\ err = "none"
    /\ outputs = <<>>

\* both images are run with the same arguments
PairRun ==
    /\ pc = "pair"
    /\ outputs' = <<RunOutput(image, a), RunOutput(other, a)>>
    /\ pc' = "paired"
    /\ UNCHANGED <<a, image, img, wC, hC, jy, ix, entries, outbin, outbin0, written,
                   err, other>>

PairNext == PairRun

SpecPair == PairInit /\ [][PairNext]_vars

(***************************************************************************)
(* Reading a file back, and what the claims speak of.                      *)
(***************************************************************************)
W == image.size[1]
H == image.size[2]

Terminal == pc \in {"done", "failed"}

\* the exceptions an argument's value makes the code raise; the code has no
\* error of its own named InvalidParameter
InvalidParameter == {"ZeroDivisionError", "struct.error"}

\* no I/O failure ended the run
NoIOFailure == err # "OSError"

HdrCount(data) == UnpackLE(SubSeq(data, 5, 8))
HdrWCells(data) == UnpackLE(SubSeq(data, 9, 10))
HdrHCells(data) == UnpackLE(SubSeq(data, 11, 12))
HdrBlock(data) == UnpackLE(SubSeq(data, 13, 14))
HdrFlags(data) == UnpackLE(SubSeq(data, 15, 16))

\* the entry records of a file: what follows the header, 12 bytes each
NumRecords(data) == (Len(data) - 16) \div 12
Record(data, k) == SubSeq(data, 16 + 12 * (k - 1) + 1, 16 + 12 * k)
RecU(data, k) == UnpackLE(SubSeq(Record(data, k), 1, 4))
RecV(data, k) == UnpackLE(SubSeq(Record(data, k), 5, 8))
RecRGBA(data, k) == SubSeq(Record(data, k), 9, 12)

\* the grid cell <<jy, ix>> whose centre a record's u and v are
RecCell(data, k) ==
    CHOOSE c \in (0..(H \div a.block - 1)) \X (0..(W \div a.block - 1)) :
        /\ Float32Bits(<<2 * c[2] + 1, 2 * (W \div a.block)>>) = RecU(data, k)
        /\ Float32Bits(<<2 * c[1] + 1, 2 * (H \div a.block)>>) = RecV(data, k)

LexLess(c, d) == c[1] < d[1] \/ (c[1] = d[1] /\ c[2] < d[2])

\* a channel summed over the pixels of cell <<jy, ix>> of the decoded image
BlockSum(c, ch) ==
    SumOver({p \in Coords(W, H) :
                /\ p[1] \div a.block = c[2]
                /\ p[2] \div a.block = c[1]}, image.data, ch)

\* the path holds a header and as many records as the header counts
Complete(f) ==
    /\ f.exists
    /\ Len(f.data) >= 16
    /\ Len(f.data) = 16 + 12 * HdrCount(f.data)

\* the step machine and the function agree on every run that ends
RunAgrees ==
    (Terminal /\ a.block # 0 /\ NoIOFailure) =>
        /\ err = RunOutput(image, a).err
        /\ outbin.data = RunOutput(image, a).data

(***************************************************************************)
(* The claims.                                                             *)
(***************************************************************************)

\* C1: after every run the output path either holds the complete encoding
\* (the header and all the entries it counts) or is as the run found it;
\* no failure leaves a partly written file.
C1_NoPartialFile ==
    Terminal => (outbin = outbin0 \/ Complete(outbin))

\* C2: for every block size <= 0 the run fails with an invalid-parameter
\* error, and the output file is neither created nor truncated.
C2_NonPositiveBlockRejected ==
    (Terminal /\ a.block <= 0 /\ NoIOFailure) =>
        /\ pc = "failed"
        /\ err \in InvalidParameter
        /\ outbin = outbin0

\* C3: a run whose alpha threshold lies outside 0..255 fails with an
\* invalid-parameter error instead of producing an output file.
C3_AlphaRangeRejected ==
    (Terminal /\ a.alpha \notin 0..255 /\ NoIOFailure) =>
        /\ pc = "failed"
        /\ err \in InvalidParameter

\* C4 (as claimed): for every run that completes with bs >= 1, the header's
\* count is the number of entry records written, the file is 16 + 16*count
\* bytes long, and count <= wC*hC.
C4_SixteenByteEntries ==
    (pc = "done" /\ a.block >= 1) =>
        /\ HdrCount(outbin.data) = written
        /\ Len(outbin.data) = 16 + 16 * HdrCount(outbin.data)
        /\ HdrCount(outbin.data) <= (W \div a.block) * (H \div a.block)

\* C4 (amended): for every run that completes with bs >= 1, the header's
\* count is the number of entry records written, the file is 16 + 12*count
\* bytes long, and count <= wC*hC.
C4_CountAndSize ==
    (pc = "done" /\ a.block >= 1) =>
        /\ HdrCount(outbin.data) = written
        /\ Len(outbin.data) = 16 + 12 * HdrCount(outbin.data)
        /\ HdrCount(outbin.data) <= (W \div a.block) * (H \div a.block)

\* a completed run that wrote some cells and dropped others
C4_Witness ==
    /\ pc = "done" /\ a.block >= 1
    /\ written >= 2
    /\ written < (W \div a.block) * (H \div a.block)

\* C5: the entries of the file are in strictly ascending row-major order of
\* their grid cells: each record's (jy, ix) is lexicographically greater
\* than that of the record before it, so no cell has two records.
C5_RowMajor ==
    (pc \in {"entries", "done", "failed"} /\ a.block >= 1
        /\ outbin.exists /\ Len(outbin.data) >= 16) =>
        \A k \in 1..(NumRecords(outbin.data) - 1) :
            LexLess(RecCell(outbin.data, k), RecCell(outbin.data, k + 1))

\* a completed file with records from two rows and two columns
C5_Witness ==
    /\ pc = "done" /\ a.block >= 1
    /\ NumRecords(outbin.data) >= 3
    /\ RecCell(outbin.data, 1) = <<0, 0>>
    /\ RecCell(outbin.data, 2) = <<0, 1>>
    /\ RecCell(outbin.data, 3)[1] = 1

\* C6: a grid cell with averaged colour (R,G,B,A) has an entry in the output
\* if and only if A >= alphaThreshold and 0.2126*R + 0.7152*G + 0.0722*B >=
\* blackThreshold (so a cell whose luma equals the threshold is kept).
\* Stated for alpha thresholds in 0..255, with the luma in ten-thousandths.
C6_KeptIffAtOrAboveThresholds ==
    (pc = "done" /\ a.block >= 1 /\ a.alpha \in 0..255) =>
        \A c \in (0..(H \div a.block - 1)) \X (0..(W \div a.block - 1)) :
            LET n == a.block * a.block
                R == BlockSum(c, 1) \div n
                G == BlockSum(c, 2) \div n
                B == BlockSum(c, 3) \div n
                A == BlockSum(c, 4) \div n
            IN (\E k \in 1..NumRecords(outbin.data) : RecCell(outbin.data, k) = c)
               <=> (/\ A >= a.alpha
                    /\ 2126 * R + 7152 * G + 722 * B >= 10000 * a.black)

\* C7: for bs >= 1 each of r, g, b, a of the record of cell (ix, jy) is the
\* floor of its channel's sum over the cell's bs*bs pixels divided by bs*bs,
\* and lies in 0..255; for bs = 1 it is the source pixel at (ix, jy).
C7_FloorAverage ==
    (pc = "done" /\ a.block >= 1) =>
        \A k \in 1..NumRecords(outbin.data) :
            LET c == RecCell(outbin.data, k)
                n == a.block * a.block
                rgba == RecRGBA(outbin.data, k)
            IN /\ \A ch \in 1..4 :
                    /\ n * rgba[ch] <= BlockSum(c, ch)
                    /\ BlockSum(c, ch) < n * (rgba[ch] + 1)
                    /\ rgba[ch] \in 0..255
               /\ a.block = 1 => rgba = image.data[<<c[2], c[1]>>]

\* a record of a 2x2 block whose alpha sum, 510, is not a multiple of 4
C7_Witness ==
    /\ pc = "done" /\ a.block = 2
    /\ \E k \in 1..NumRecords(outbin.data) :
          /\ RecRGBA(outbin.data, k)[4] = 127
          /\ BlockSum(RecCell(outbin.data, k), 4) = 510

\* C8: for bs >= 1, two images of the same size that agree on every pixel
\* with x < floor(W/bs)*bs and y < floor(H/bs)*bs produce the same bytes.
C8_RemainderIgnored ==
    pc = "paired" => outputs[1] = outputs[2]

\* two images that differ in a remainder pixel, each with a record to write
C8_Witness ==
    /\ pc = "paired"
    /\ other # image
    /\ outputs[1].err = "none"
    /\ Len(outputs[1].data) > 16

\* C9 (as claimed): for every input with W, H, bs >= 1, also when bs or a
\* grid dimension exceeds 65535, the run completes and the header records
\* wCells = floor(W/bs), hCells = floor(H/bs), block = bs and flags = 0.
C9_HeaderAnyBlock ==
    (Terminal /\ a.block >= 1 /\ NoIOFailure) =>
        /\ pc = "done"
        /\ HdrWCells(outbin.data) = W \div a.block
        /\ HdrHCells(outbin.data) = H \div a.block
        /\ HdrBlock(outbin.data) = a.block
        /\ HdrFlags(outbin.data) = 0

\* C9 (amended): for every input with W, H >= 1 and 1 <= bs <= 65535 whose
\* floor(W/bs) and floor(H/bs) are at most 65535, a run that meets no I/O
\* failure completes and the header records wCells = floor(W/bs),
\* hCells = floor(H/bs), block = bs and flags = 0.
C9_HeaderWithin16Bits ==
    (Terminal /\ a.block >= 1 /\ NoIOFailure
        /\ a.block <= 65535 /\ W \div a.block <= 65535 /\ H \div a.block <= 65535) =>
        /\ pc = "done"
        /\ HdrWCells(outbin.data) = W \div a.block
        /\ HdrHCells(outbin.data) = H \div a.block
        /\ HdrBlock(outbin.data) = a.block
        /\ HdrFlags(outbin.data) = 0

\* a completed run over a 3x2 image in blocks of 2: a grid of one cell
C9_Witness ==
    /\ pc = "done" /\ a.block = 2
    /\ W = 3 /\ H = 2
    /\ HdrWCells(outbin.data) = 1
    /\ HdrHCells(outbin.data) = 1
    /\ HdrBlock(outbin.data) = 2

\* no cell survives: the block is larger than the image, or every cell was
\* filtered out (as for a fully transparent image and alpha threshold 8)
NoCellSurvives ==
    \/ a.block > W
    \/ a.block > H
    \/ entries = <<>>
    \/ a.alpha = 8 /\ \A c \in Coords(W, H) : image.data[c][4] = 0

\* C10 (as claimed): when no cell survives the run completes without error
\* and the output file is exactly the 16-byte header with count = 0.
C10_EmptyAnyBlock ==
    (Terminal /\ a.block >= 1 /\ NoIOFailure /\ NoCellSurvives) =>
        /\ pc = "done"
        /\ outbin.exists
        /\ Len(outbin.data) = 16
        /\ HdrCount(outbin.data) = 0

\* C10 (amended): when no cell survives and bs, floor(W/bs) and floor(H/bs)
\* are at most 65535, a run that meets no I/O failure completes without
\* error and the output file is exactly the 16-byte header with count = 0.
C10_EmptyWithin16Bits ==
    (Terminal /\ a.block >= 1 /\ NoIOFailure /\ NoCellSurvives
        /\ a.block <= 65535 /\ W \div a.block <= 65535 /\ H \div a.block <= 65535) =>
        /\ pc = "done"
        /\ outbin.exists
        /\ Len(outbin.data) = 16
        /\ HdrCount(outbin.data) = 0

\* a completed run over a fully transparent image with cells to filter
C10_Witness ==
    /\ pc = "done" /\ a.block >= 1 /\ a.alpha = 8
    /\ (W \div a.block) * (H \div a.block) >= 2
    /\ \A c \in Coords(W, H) : image.data[c][4] = 0
    /\ Len(outbin.data) = 16

====
